---- MODULE Spec2Model ----
\* Model of src/src/knowledge_graph/quickstart_neo4j.py: the module-level
\* start-up check, the coroutine add_episode_with_retry and the coroutine main.
\* The external collaborators (graphiti.add_episode, graphiti.search,
\* graphiti._search) are modelled by their outcome: a normal return, a
\* RateLimitError, or any other Exception.  Every call of an external
\* operation, every asyncio.sleep and every completed call of
\* add_episode_with_retry by main is appended to `log`, in program order.
EXTENDS Integers, Sequences, FiniteSets

\* ---------------------------------------------------------------- bounds
\* Largest max_retries / base_delay argument tried on a direct invocation of
\* add_episode_with_retry, largest result list and node identifier returned
\* by the basic search.
MaxRetriesArg == 4
MaxBaseDelay == 3
MaxResults == 2
MaxUuid == 2

\* ------------------------------------------------------ program constants
\* len(episodes), and the arguments main passes to add_episode_with_retry
\* (base_delay = 2.0 and the pacing delay 1.0 are modelled in whole seconds).
NumEpisodes == 4
MainMaxRetries == 3
MainBaseDelay == 2
PacingDelay == 1

\* Outcomes of one awaited external call: it returns, raises RateLimitError,
\* or raises some other Exception.
Outcomes == {"ok", "rate_limit", "other"}

\* State of the OPENAI_API_KEY environment variable at import time.
KeyStates == {"unset", "empty", "set"}

\* Identifiers of graph nodes; 0 stands for None (no center_node_uuid given).
Uuids == 1..MaxUuid

\* The result lists graphiti.search may return, each element reduced to its
\* source_node_uuid.
ResultLists == UNION {[1..n -> Uuids] : n \in 0..MaxResults}

VARIABLES
    key,             \* OPENAI_API_KEY: "unset", "empty" or "set"
    pc,              \* position of the script / of main
    exit_status,     \* -1 while running, else the process exit status
    i,               \* main: loop index of the batch loop
    episodes_added,  \* main: counter
    episodes_failed, \* main: counter
    results,         \* main: value returned by the basic search
    center_node_uuid,\* main: results[0].source_node_uuid (0 = unset)
    pending,         \* main: exception in flight through the finally block
    propagated,      \* exception main raised to its caller ("none" if it returned)
    rpc,             \* add_episode_with_retry: position
    attempt,         \* add_episode_with_retry: loop variable
    max_retries,     \* add_episode_with_retry: argument
    base_delay,      \* add_episode_with_retry: argument
    delay,           \* add_episode_with_retry: local of the backoff branch
    ret,             \* add_episode_with_retry: "None" (running), "True", "False"
    ret_line,        \* source line of the return statement taken (0 = none)
    rexc,            \* exception add_episode_with_retry raised to its caller
    inv_start,       \* Len(log) when the current invocation of the wrapper began
    log              \* the calls and sleeps so far, in order

vars == <<key, pc, exit_status, i, episodes_added, episodes_failed, results,
          center_node_uuid, pending, propagated, rpc, attempt, max_retries,
          base_delay, delay, ret, ret_line, rexc, inv_start, log>>

mainVars == <<key, pc, exit_status, i, episodes_added, episodes_failed,
              results, center_node_uuid, pending, propagated>>

retryArgs == <<max_retries, base_delay, inv_start>>

\* One entry of the log.
Ev(op, item, att, arg, outcome) ==
    [op |-> op, item |-> item, attempt |-> att, arg |-> arg, outcome |-> outcome]

\* ------------------------------------------- add_episode_with_retry: logic

\* range(max_retries) yields idx.
RangeHasNext(idx, n) == idx < n

\* Variant: every exception is handled by the rate-limit clause.
ExceptClause_AllRetryable(outcome) ==
    IF outcome = "ok" THEN "none" ELSE "RateLimitError"

\* Variant: the generic `except Exception` clause is missing.
ExceptClause_NoGenericClause(outcome) ==
    CASE outcome = "ok" -> "none"
      [] outcome = "rate_limit" -> "RateLimitError"
      [] outcome = "other" -> "unhandled"

\* Which except clause of the try statement handles the outcome of the call:
\* RateLimitError is listed first, Exception second.
ExceptClause(outcome) ==
    CASE outcome = "ok" -> "none"
      [] outcome = "rate_limit" -> "RateLimitError"
      [] outcome = "other" -> "Exception"

\* Variant: gives up one attempt early.
ShouldBackoff_GivesUpEarly(att, n) == att < n - 2

\* Variant: the last attempt is followed by a wait too.
ShouldBackoff_AfterLastAttempt(att, n) == att < n

\* `if attempt < max_retries - 1`
ShouldBackoff(att, n) == att < n - 1

\* Variant: the exponent is the attempt number, not the attempt index.
BackoffDelay_ExponentOffByOne(d, att) == d * (2 ^ (att + 1))

\* `delay = base_delay * (2 ** attempt)`
BackoffDelay(d, att) == d * (2 ^ att)

\* The wrapper after the awaited add_episode call of attempt `att` ended with
\* `outcome`: where it is next, what it returns or raises.
AfterAttempt(att, n, d, outcome) ==
    LET clause == ExceptClause(outcome) IN
    CASE outcome = "ok" ->
           [rpc |-> "returned", ret |-> "True", line |-> 98, delay |-> 0, exc |-> "none"]
      [] outcome # "ok" /\ clause = "RateLimitError" ->
           IF ShouldBackoff(att, n)
           THEN [rpc |-> "backoff", ret |-> "None", line |-> 0,
                 delay |-> BackoffDelay(d, att), exc |-> "none"]
           ELSE [rpc |-> "returned", ret |-> "False", line |-> 116, delay |-> 0, exc |-> "none"]
      [] outcome # "ok" /\ clause = "Exception" ->
           [rpc |-> "returned", ret |-> "False", line |-> 120, delay |-> 0, exc |-> "none"]
      [] OTHER ->
           [rpc |-> "raised", ret |-> "None", line |-> 0, delay |-> 0, exc |-> outcome]

\* ----------------------------------------- add_episode_with_retry: actions

\* Entry of the coroutine: the for statement takes its first value, or the
\* range is empty and line 122 returns False.
RetryEnter ==
    /\ rpc = "invoked"
    /\ IF RangeHasNext(0, max_retries)
       THEN /\ rpc' = "attempting"
            /\ UNCHANGED <<ret, ret_line>>
       ELSE /\ rpc' = "returned"
            /\ ret' = "False"
            /\ ret_line' = 122
    /\ attempt' = 0
    /\ UNCHANGED <<delay, rexc, log>>
    /\ UNCHANGED mainVars
    /\ UNCHANGED retryArgs

\* `await graphiti.add_episode(...)` completes with `outcome`, and the code
\* runs to the return or to the sleep.
RetryAttempt(outcome) ==
    /\ rpc = "attempting"
    /\ LET nx == AfterAttempt(attempt, max_retries, base_delay, outcome) IN
       /\ rpc' = nx.rpc
       /\ ret' = nx.ret
       /\ ret_line' = nx.line
       /\ delay' = nx.delay
       /\ rexc' = nx.exc
    /\ log' = Append(log, Ev("add_episode", i, attempt, 0, outcome))
    /\ UNCHANGED attempt
    /\ UNCHANGED mainVars
    /\ UNCHANGED retryArgs

\* Variant: after the sleep the same attempt index is tried again (a loop
\* that never advances).
RetryBackoff_NoIncrement ==
    /\ rpc = "backoff"
    /\ log' = Append(log, Ev("backoff_sleep", i, attempt, delay, "none"))
    /\ rpc' = "attempting"
    /\ delay' = 0
    /\ UNCHANGED <<attempt, ret, ret_line, rexc>>
    /\ UNCHANGED mainVars
    /\ UNCHANGED retryArgs

\* `await asyncio.sleep(delay)` elapses and the for statement takes its next
\* value (line 122 when the range is exhausted).
RetryBackoff ==
    /\ rpc = "backoff"
    /\ log' = Append(log, Ev("backoff_sleep", i, attempt, delay, "none"))
    /\ IF RangeHasNext(attempt + 1, max_retries)
       THEN /\ attempt' = attempt + 1
            /\ rpc' = "attempting"
            /\ UNCHANGED <<ret, ret_line>>
       ELSE /\ attempt' = attempt
            /\ rpc' = "returned"
            /\ ret' = "False"
            /\ ret_line' = 122
    /\ delay' = 0
    /\ UNCHANGED rexc
    /\ UNCHANGED mainVars
    /\ UNCHANGED retryArgs

\* ------------------------------------------------------------ main: logic

\* Variant: only an unset variable counts as missing (`is None`).
KeyMissing_OnlyUnset(k) == k = "unset"

\* `if not openai_api_key`: None and the empty string are both falsy.
KeyMissing(k) == k # "set"

\* Variant: the guard never fires.
SearchesSkipped_Never(added) == added < 0

\* `if episodes_added == 0: ... return`
SearchesSkipped(added) == added = 0

\* Variant: the pacing sleep follows the last episode too.
PacingNeeded_AfterLastToo(idx, n) == idx < n

\* `if i < len(episodes) - 1` before the pacing sleep.
PacingNeeded(idx, n) == idx < n - 1

\* `if results and len(results) > 0`
HasResults(res) == Len(res) > 0

\* Variant: the last result is taken instead of the first.
TopSourceNode_Last(res) == res[Len(res)]

\* `results[0].source_node_uuid` (sequences are 1-based here).
TopSourceNode(res) == res[1]

\* Variant: no finally block, a return or an exception leaves main at once.
OnLeaveTry_NoFinally == "done"

\* Where control goes when a `return` statement or an exception leaves the
\* try block of main: the finally block runs first (lines 141, 352).
OnLeaveTry == "finally"

\* Variant: a failed item is counted and the loop goes on (no `break`).
AfterInsertion_ContinueOnFailure(success, idx, n) ==
    IF success
    THEN IF idx < n - 1
         THEN [pc |-> "pacing", i |-> idx, added |-> 1, failed |-> 0]
         ELSE [pc |-> "loop", i |-> idx + 1, added |-> 1, failed |-> 0]
    ELSE [pc |-> "loop", i |-> idx + 1, added |-> 0, failed |-> 1]

\* Lines 212-224, the body of the loop after the wrapper returned `success`
\* for item idx of n: the counter to bump, the next value of i and where main
\* goes (the pacing sleep, the next turn of the loop, or out by `break`).
AfterInsertion(success, idx, n) ==
    IF success
    THEN IF PacingNeeded(idx, n)
         THEN [pc |-> "pacing", i |-> idx, added |-> 1, failed |-> 0]
         ELSE [pc |-> "loop", i |-> idx + 1, added |-> 1, failed |-> 0]
    ELSE [pc |-> "after_loop", i |-> idx, added |-> 0, failed |-> 1]

\* Variant: the except clauses of the center-node search log and fall
\* through instead of returning.
SearchNext_CenterFallsThrough(step, outcome, res) ==
    CASE step = "basic_search" /\ outcome # "ok" -> "finally"
      [] step = "basic_search" /\ outcome = "ok" ->
           IF Len(res) > 0 THEN "center_search" ELSE "node_search"
      [] step = "center_search" -> "node_search"
      [] step = "node_search" -> "finally"

\* Variant: an empty basic result returns from main instead of going on to
\* the node search.
SearchNext_EmptySkipsAll(step, outcome, res) ==
    CASE outcome # "ok" -> "finally"
      [] outcome = "ok" /\ step = "basic_search" ->
           IF Len(res) > 0 THEN "center_search" ELSE "finally"
      [] outcome = "ok" /\ step = "center_search" -> "node_search"
      [] outcome = "ok" /\ step = "node_search" -> "finally"

\* Where main goes after a search step ended with `outcome` (`res` being the
\* value of `results`): every except clause returns, an empty basic result
\* skips the center-node search.
SearchNext(step, outcome, res) ==
    CASE outcome # "ok" -> OnLeaveTry
      [] outcome = "ok" /\ step = "basic_search" ->
           IF HasResults(res) THEN "center_search" ELSE "node_search"
      [] outcome = "ok" /\ step = "center_search" -> "node_search"
      [] outcome = "ok" /\ step = "node_search" -> OnLeaveTry

\* The try statement around each search call: RateLimitError and Exception
\* both log and return; nothing else is raised by the modelled outcomes.
SearchHandled(outcome) == outcome \in {"rate_limit", "other"}

\* ---------------------------------------------------------- main: actions

retryVars == <<rpc, attempt, max_retries, base_delay, delay, ret, ret_line,
               rexc, inv_start>>

\* Module body, lines 54-60: without a key the process exits with status 1;
\* with one, asyncio.run(main()) is reached.
Startup ==
    /\ pc = "module"
    /\ IF KeyMissing(key)
       THEN /\ pc' = "exited"
            /\ exit_status' = 1
       ELSE /\ pc' = "main"
            /\ UNCHANGED exit_status
    /\ UNCHANGED <<key, i, episodes_added, episodes_failed, results,
                   center_node_uuid, pending, propagated, log>>
    /\ UNCHANGED retryVars

\* Lines 135-139: the connection object is created, the counters start at 0.
Connect ==
    /\ pc = "main"
    /\ log' = Append(log, Ev("Graphiti", 0, 0, 0, "ok"))
    /\ episodes_added' = 0
    /\ episodes_failed' = 0
    /\ i' = 0
    /\ pc' = "loop"
    /\ UNCHANGED <<key, exit_status, results, center_node_uuid, pending, propagated>>
    /\ UNCHANGED retryVars

\* Lines 191-210: the for statement takes item i and main awaits
\* add_episode_with_retry(max_retries=3, base_delay=2.0); or the list is
\* exhausted and the loop ends.
ProcessEpisode ==
    /\ pc = "loop"
    /\ IF i < NumEpisodes
       THEN /\ pc' = "await_retry"
            /\ rpc' = "invoked"
            /\ max_retries' = MainMaxRetries
            /\ base_delay' = MainBaseDelay
            /\ inv_start' = Len(log)
            /\ attempt' = 0
            /\ delay' = 0
            /\ ret' = "None"
            /\ ret_line' = 0
            /\ rexc' = "none"
       ELSE /\ pc' = "after_loop"
            /\ UNCHANGED retryVars
    /\ UNCHANGED <<key, exit_status, i, episodes_added, episodes_failed,
                   results, center_node_uuid, pending, propagated, log>>

\* Lines 212-224: the awaited wrapper has ended.  True: count it, then pace
\* or go on; False: count it and break; an exception leaves the try block.
RetryReturn ==
    /\ pc = "await_retry"
    /\ rpc \in {"returned", "raised"}
    /\ IF rpc = "raised"
       THEN /\ pending' = rexc
            /\ pc' = OnLeaveTry
            /\ UNCHANGED <<i, episodes_added, episodes_failed>>
       ELSE /\ UNCHANGED pending
            /\ LET nx == AfterInsertion(ret = "True", i, NumEpisodes) IN
               /\ episodes_added' = episodes_added + nx.added
               /\ episodes_failed' = episodes_failed + nx.failed
               /\ i' = nx.i
               /\ pc' = nx.pc
    /\ log' = Append(log, Ev("add_episode_with_retry", i, 0, 0,
                             IF rpc = "raised" THEN "raised" ELSE ret))
    /\ rpc' = "idle"
    /\ UNCHANGED <<key, exit_status, results, center_node_uuid, propagated>>
    /\ UNCHANGED <<attempt, max_retries, base_delay, delay, ret, ret_line,
                   rexc, inv_start>>

\* Line 217: `await asyncio.sleep(1.0)` elapses; the loop goes to the next item.
Pacing ==
    /\ pc = "pacing"
    /\ log' = Append(log, Ev("pacing_sleep", i, 0, PacingDelay, "none"))
    /\ i' = i + 1
    /\ pc' = "loop"
    /\ UNCHANGED <<key, exit_status, episodes_added, episodes_failed, results,
                   center_node_uuid, pending, propagated>>
    /\ UNCHANGED retryVars

\* Lines 226-245: after the loop, return (into the finally block) when
\* nothing was added, else go on to the basic search.
AfterLoop ==
    /\ pc = "after_loop"
    /\ IF SearchesSkipped(episodes_added)
       THEN pc' = OnLeaveTry
       ELSE pc' = "basic_search"
    /\ UNCHANGED <<key, exit_status, i, episodes_added, episodes_failed,
                   results, center_node_uuid, pending, propagated, log>>
    /\ UNCHANGED retryVars

\* Lines 246-280, 304: graphiti.search(query) ends with `outcome` (returning
\* `res` when it returns); an error returns from main, a non-empty result
\* sets center_node_uuid, an empty one skips the center-node search.
BasicSearch(outcome, res) ==
    /\ pc = "basic_search"
    /\ log' = Append(log, Ev("search", 0, 0, 0, outcome))
    /\ IF outcome = "ok"
       THEN /\ results' = res
            /\ UNCHANGED pending
            /\ center_node_uuid' =
                 IF HasResults(res) THEN TopSourceNode(res) ELSE center_node_uuid
       ELSE /\ UNCHANGED <<results, center_node_uuid>>
            /\ pending' = IF SearchHandled(outcome) THEN "none" ELSE outcome
    /\ pc' = SearchNext("basic_search", outcome, res)
    /\ UNCHANGED <<key, exit_status, i, episodes_added, episodes_failed, propagated>>
    /\ UNCHANGED retryVars

\* Lines 282-302: graphiti.search(query, center_node_uuid=center_node_uuid).
CenterSearch(outcome) ==
    /\ pc = "center_search"
    /\ log' = Append(log, Ev("search", 0, 0, center_node_uuid, outcome))
    /\ pending' = IF outcome = "ok" \/ SearchHandled(outcome) THEN "none" ELSE outcome
    /\ pc' = SearchNext("center_search", outcome, results)
    /\ UNCHANGED <<key, exit_status, i, episodes_added, episodes_failed,
                   results, center_node_uuid, propagated>>
    /\ UNCHANGED retryVars

\* Lines 316-350: graphiti._search(query, config); every outcome leads to the
\* finally block.
NodeSearch(outcome) ==
    /\ pc = "node_search"
    /\ log' = Append(log, Ev("_search", 0, 0, 0, outcome))
    /\ pending' = IF outcome = "ok" \/ SearchHandled(outcome) THEN "none" ELSE outcome
    /\ pc' = SearchNext("node_search", outcome, results)
    /\ UNCHANGED <<key, exit_status, i, episodes_added, episodes_failed,
                   results, center_node_uuid, propagated>>
    /\ UNCHANGED retryVars

\* Lines 352-362: the finally block closes the connection; main then returns,
\* or re-raises the exception in flight.
Close ==
    /\ pc = "finally"
    /\ log' = Append(log, Ev("close", 0, 0, 0, "ok"))
    /\ propagated' = pending
    /\ pending' = "none"
    /\ exit_status' = IF pending = "none" THEN 0 ELSE 1
    /\ pc' = "done"
    /\ UNCHANGED <<key, i, episodes_added, episodes_failed, results, center_node_uuid>>
    /\ UNCHANGED retryVars

\* ---------------------------------------------------------------- initial

\* The script is started: the module body runs with some state of the key.
InitScript ==
    /\ key \in KeyStates
    /\ pc = "module"
    /\ rpc = "idle"
    /\ max_retries = 0
    /\ base_delay = 0

\* add_episode_with_retry is invoked directly with arguments of the caller's
\* choice (the module was imported with the key set).
InitDirect ==
    /\ key = "set"
    /\ pc = "direct"
    /\ rpc = "invoked"
    /\ max_retries \in (-1)..MaxRetriesArg
    /\ base_delay \in 1..MaxBaseDelay

Init ==
    /\ (InitScript \/ InitDirect)
    /\ exit_status = -1
    /\ i = 0
    /\ episodes_added = 0
    /\ episodes_failed = 0
    /\ results = <<>>
    /\ center_node_uuid = 0
    /\ pending = "none"
    /\ propagated = "none"
    /\ attempt = 0
    /\ delay = 0
    /\ ret = "None"
    /\ ret_line = 0
    /\ rexc = "none"
    /\ inv_start = 0
    /\ log = <<>>

Next ==
    \/ RetryEnter
    \/ \E o \in Outcomes : RetryAttempt(o)
    \/ RetryBackoff
    \/ Startup
    \/ Connect
    \/ ProcessEpisode
    \/ RetryReturn
    \/ Pacing
    \/ AfterLoop
    \/ \E o \in Outcomes, res \in ResultLists : BasicSearch(o, res)
    \/ \E o \in Outcomes : CenterSearch(o)
    \/ \E o \in Outcomes : NodeSearch(o)
    \/ Close

Spec == Init /\ [][Next]_vars

\* Every awaited external call returns or raises and every sleep elapses: the
\* event loop runs the single task whenever it can take a step.
FairSpec == Spec /\ WF_vars(Next)

\* ------------------------------------------------- reading the call log

\* The calls and sleeps of the current (or last finished) invocation of
\* add_episode_with_retry; meaningful while rpc # "idle".
InvLog == SubSeq(log, inv_start + 1, Len(log))

IsCall(e) == e.op = "add_episode"
IsWait(e) == e.op = "backoff_sleep"

InvCalls == {k \in DOMAIN InvLog : IsCall(InvLog[k])}
InvWaits == {k \in DOMAIN InvLog : IsWait(InvLog[k])}

\* Every call of the invocation so far raised RateLimitError.
AllRateLimited == \A k \in InvCalls : InvLog[k].outcome = "rate_limit"

RetryEnded == rpc \in {"returned", "raised"}

\* --------------------------------------------------------------- claims

\* C1: with max_retries = N >= 1 and base_delay = D, while every call raises
\* a rate-limit error the invocation's log alternates call 0, wait D, call 1,
\* wait 2D, ... (each wait twice the one before, the first one D); it ends
\* exactly when N calls and N-1 waits were made, the last event being call
\* N-1, and then it has returned False.
C1_PersistentRateLimit ==
    (rpc # "idle" /\ max_retries >= 1 /\ AllRateLimited) =>
        /\ Len(InvLog) <= 2 * max_retries - 1
        /\ \A k \in DOMAIN InvLog :
              IF k % 2 = 1
              THEN IsCall(InvLog[k]) /\ InvLog[k].attempt = (k - 1) \div 2
              ELSE /\ IsWait(InvLog[k])
                   /\ InvLog[k].arg = IF k = 2 THEN base_delay
                                               ELSE 2 * InvLog[k - 2].arg
        /\ RetryEnded <=> Len(InvLog) = 2 * max_retries - 1
        /\ RetryEnded =>
              /\ rpc = "returned" /\ ret = "False"
              /\ Cardinality(InvCalls) = max_retries
              /\ Cardinality(InvWaits) = max_retries - 1
              /\ IsCall(InvLog[Len(InvLog)])

C1_Witness ==
    /\ rpc = "returned"
    /\ max_retries >= 3
    /\ AllRateLimited
    /\ Cardinality(InvCalls) = max_retries
    /\ ret = "False"

\* C2: with max_retries = N >= 1, after fewer than N calls that all raised a
\* rate-limit error the invocation has not ended (the next call is made); and
\* when call number k succeeds, k <= N, the calls before it all raised a
\* rate-limit error, exactly k calls and k-1 waits were made, the successful
\* call is the last event, and the invocation has returned True.
C2_SuccessOnAttemptK ==
    (rpc # "idle" /\ max_retries >= 1) =>
        /\ (AllRateLimited /\ Cardinality(InvCalls) < max_retries) => ~RetryEnded
        /\ \A j \in InvCalls :
              InvLog[j].outcome = "ok" =>
                 LET k == InvLog[j].attempt + 1 IN
                 /\ k >= 1 /\ k <= max_retries
                 /\ \A m \in InvCalls : m < j => InvLog[m].outcome = "rate_limit"
                 /\ Cardinality(InvCalls) = k
                 /\ Cardinality(InvWaits) = k - 1
                 /\ j = Len(InvLog)
                 /\ rpc = "returned" /\ ret = "True"

C2_Witness ==
    /\ rpc = "returned"
    /\ ret = "True"
    /\ Cardinality(InvCalls) = 3
    /\ Cardinality(InvWaits) = 2

\* C3 as stated: an invocation in which a call raised a non-rate-limit error
\* ends with exactly one call in total, no wait, and False.
C3_Original ==
    (rpc # "idle" /\ \E j \in InvCalls : InvLog[j].outcome = "other") =>
        /\ rpc = "returned" /\ ret = "False"
        /\ Cardinality(InvCalls) = 1
        /\ Cardinality(InvWaits) = 0

\* C3 amended: a non-rate-limit error raised by the call of attempt index a
\* ends the invocation at once with False; that call is the last event, and
\* the invocation made a+1 calls and a waits in total (one call and no wait
\* exactly when the error comes on the first attempt).
C3_FatalErrorEndsInvocation ==
    rpc # "idle" =>
        \A j \in InvCalls :
            InvLog[j].outcome = "other" =>
               /\ rpc = "returned" /\ ret = "False"
               /\ j = Len(InvLog)
               /\ Cardinality(InvCalls) = InvLog[j].attempt + 1
               /\ Cardinality(InvWaits) = InvLog[j].attempt
               /\ \A m \in InvCalls : m < j => InvLog[m].outcome = "rate_limit"

C3_Witness ==
    /\ rpc = "returned"
    /\ ret = "False"
    /\ \E j \in InvCalls : InvLog[j].outcome = "other" /\ InvLog[j].attempt = 2
    /\ Cardinality(InvCalls) = 3
    /\ Cardinality(InvWaits) = 2

\* Reading main's part of the log.
IsResult(e) == e.op = "add_episode_with_retry"
IsBasicSearch(e) == e.op = "search" /\ e.arg = 0
IsCenterSearch(e) == e.op = "search" /\ e.arg # 0
IsNodeSearch(e) == e.op = "_search"
IsSearch(e) == e.op \in {"search", "_search"}
IsClose(e) == e.op = "close"
IsConnect(e) == e.op = "Graphiti"

Positions(P(_)) == {k \in DOMAIN log : P(log[k])}

\* Positions of main at which the batch loop has ended.
LoopEnded ==
    pc \in {"after_loop", "basic_search", "center_search", "node_search",
            "finally", "done"}

\* C4: when add_episode_with_retry returns False for item j, the items
\* before it returned True in list order, the loop has ended, no add_episode
\* call is made for an item after j nor at all after that return, and from
\* then on episodes_added = j and episodes_failed = 1.
C4_BatchFailFast ==
    \A k \in Positions(IsResult) :
        log[k].outcome = "False" =>
           LET j == log[k].item IN
           /\ LoopEnded /\ rpc = "idle"
           /\ Cardinality({m \in Positions(IsResult) : m < k}) = j
           /\ \A m \in Positions(IsResult) :
                 m < k => log[m].outcome = "True"
                          /\ log[m].item = Cardinality({q \in Positions(IsResult) : q < m})
           /\ \A m \in Positions(IsCall) : log[m].item <= j /\ m < k
           /\ \A m \in Positions(IsResult) : m <= k
           /\ episodes_added = j
           /\ episodes_failed = 1

\* Items A, B, C, D with B failing: A was added, C and D were never tried.
C4_Witness ==
    /\ pc = "done"
    /\ \E k \in Positions(IsResult) : log[k].outcome = "False" /\ log[k].item = 1
    /\ episodes_added = 1
    /\ episodes_failed = 1

\* C5: as long as episodes_added = 0, and so in every run that ends the loop
\* with it, main is at no search step and no search call is in the log.
C5_NoSearchWithoutInsertion ==
    (pc # "direct" /\ episodes_added = 0) =>
        /\ Positions(IsSearch) = {}
        /\ pc \notin {"basic_search", "center_search", "node_search"}

C5_Witness ==
    /\ pc = "done"
    /\ episodes_added = 0
    /\ episodes_failed = 1
    /\ \E k \in Positions(IsResult) : log[k].item = 0 /\ log[k].outcome = "False"

\* C6: close is called at most once, nothing is called after it, and once
\* the connection exists close is eventually called.
C6_CloseOnEveryPath ==
    /\ [](/\ Cardinality(Positions(IsClose)) <= 1
          /\ \A k \in Positions(IsClose) : k = Len(log) /\ pc = "done"
          /\ pc = "done" => Cardinality(Positions(IsClose)) = 1)
    /\ (Positions(IsConnect) # {}) ~> (Cardinality(Positions(IsClose)) = 1)

\* Closed after a failed insertion that followed a successful one and a
\* center-node search that raised.
C6_Witness ==
    /\ pc = "done"
    /\ Cardinality(Positions(IsClose)) = 1
    /\ episodes_failed = 1
    /\ \E k \in Positions(IsCenterSearch) : log[k].outcome = "rate_limit"

\* C7 as stated: after an insertion reported failure there is no further
\* insertion and no search call; after a search call raised there is no
\* further search call.
C7_Original ==
    /\ \A k \in Positions(IsResult) :
          log[k].outcome = "False" =>
             \A m \in DOMAIN log : m > k => ~IsCall(log[m]) /\ ~IsSearch(log[m])
    /\ \A k \in Positions(IsSearch) :
          log[k].outcome # "ok" => \A m \in Positions(IsSearch) : m <= k

\* C7 amended: after an insertion reported failure there is no further
\* insertion, and a search call follows only if an earlier insertion of the
\* run succeeded (none follows a failure of the first item); after a search
\* call raised there is no further search call.
C7_EarlyTermination ==
    /\ \A k \in Positions(IsResult) :
          log[k].outcome = "False" =>
             /\ \A m \in DOMAIN log : m > k => ~IsCall(log[m]) /\ ~IsResult(log[m])
             /\ (\E m \in Positions(IsSearch) : m > k) =>
                   \E q \in Positions(IsResult) : q < k /\ log[q].outcome = "True"
             /\ (~ \E q \in Positions(IsResult) : q < k /\ log[q].outcome = "True") =>
                   pc \in {"after_loop", "finally", "done"}
    /\ \A k \in Positions(IsSearch) :
          log[k].outcome # "ok" =>
             /\ \A m \in Positions(IsSearch) : m <= k
             /\ pc \in {"finally", "done"}

\* A failure of the third item, after two successes, followed by searches.
C7_Witness ==
    /\ pc = "done"
    /\ \E k \in Positions(IsResult) :
          /\ log[k].outcome = "False"
          /\ log[k].item = 2
          /\ \E m \in Positions(IsNodeSearch) : m > k

\* C8: a center-node search call comes right after a basic search call that
\* returned; the returned result list is non-empty and its first element's
\* source_node_uuid is the center_node_uuid argument of the call.
C8_CenterNodeIsTopResult ==
    /\ \A k \in Positions(IsCenterSearch) :
          /\ k > 1
          /\ IsBasicSearch(log[k - 1])
          /\ log[k - 1].outcome = "ok"
          /\ Len(results) > 0
          /\ log[k].arg = results[1]
    /\ pc = "center_search" => Len(results) > 0 /\ center_node_uuid = results[1]

C8_Witness ==
    /\ Positions(IsCenterSearch) # {}
    /\ Len(results) = 2
    /\ results[1] # results[2]

\* C9: each search step is called at most once, and a search call that
\* raised is the last search call and is followed by close and nothing else.
C9_NoSearchRetry ==
    /\ Cardinality(Positions(IsBasicSearch)) <= 1
    /\ Cardinality(Positions(IsCenterSearch)) <= 1
    /\ Cardinality(Positions(IsNodeSearch)) <= 1
    /\ \A k \in Positions(IsSearch) :
          log[k].outcome # "ok" =>
             /\ \A m \in Positions(IsSearch) : m <= k
             /\ \/ k = Len(log) /\ pc = "finally"
                \/ k = Len(log) - 1 /\ IsClose(log[Len(log)]) /\ pc = "done"

C9_Witness ==
    /\ pc = "done"
    /\ \E k \in Positions(IsCenterSearch) : log[k].outcome = "other"
    /\ Positions(IsNodeSearch) = {}

\* C10: add_episode_with_retry never ends by raising: it ends with True or
\* False; no exception is in flight in main, and main ends by returning,
\* after close, with nothing propagated.
C10_NoExceptionEscapes ==
    /\ rpc # "raised"
    /\ rexc = "none"
    /\ rpc = "returned" => ret \in {"True", "False"}
    /\ \A k \in Positions(IsResult) : log[k].outcome \in {"True", "False"}
    /\ pending = "none"
    /\ propagated = "none"
    /\ pc = "done" => IsClose(log[Len(log)]) /\ exit_status = 0

\* A run with a rate-limited and a failing insertion call and a failing search.
C10_Witness ==
    /\ pc = "done"
    /\ \E k \in Positions(IsCall) : log[k].outcome = "rate_limit"
    /\ \E k \in Positions(IsCall) : log[k].outcome = "other"
    /\ \E k \in Positions(IsSearch) : log[k].outcome = "other"
    /\ propagated = "none"

\* The last log entry of the step just taken, when the step added one.
NewEvent(P(_)) == Len(log') = Len(log) + 1 /\ P(log'[Len(log')])

\* C11: a call of any attempt index that raises a non-rate-limit error makes
\* the wrapper return False on the spot (line 120), whatever number of
\* attempts remains; and once the wrapper has returned, the invocation makes
\* no further call and no further wait.
C11_FatalErrorNotRetried ==
    [][/\ (rpc = "attempting" /\ NewEvent(IsCall)
           /\ log'[Len(log')].outcome = "other") =>
              /\ attempt >= 0 /\ attempt < max_retries
              /\ rpc' = "returned"
              /\ ret' = "False"
              /\ ret_line' = 120
              /\ attempt' = attempt
              /\ delay' = 0
       /\ rpc = "returned" =>
              /\ rpc' \in {"returned", "idle"}
              /\ ~NewEvent(IsCall)
              /\ ~NewEvent(IsWait)]_vars

\* A non-rate-limit error on the first of at least three attempts.
C11_Witness ==
    /\ rpc = "returned"
    /\ ret_line = 120
    /\ attempt = 0
    /\ max_retries >= 3
    /\ InvLog[Len(InvLog)].outcome = "other"
    /\ Cardinality(InvCalls) = 1

\* C12: when OPENAI_API_KEY is unset or empty the script never gets past the
\* module body: no connection is created and nothing is called or awaited,
\* the process never ends with status 0, and it does end, with exit
\* status 1.
C12_MissingKeyExitsBeforeWork ==
    /\ [](key # "set" =>
            /\ pc \in {"module", "exited"}
            /\ log = <<>>
            /\ rpc = "idle"
            /\ exit_status # 0
            /\ pc = "exited" <=> exit_status = 1)
    /\ (key # "set") ~> (pc = "exited" /\ exit_status = 1)

C12_Witness ==
    /\ key = "empty"
    /\ pc = "exited"
    /\ exit_status = 1
    /\ log = <<>>

\* C13: every invocation of add_episode_with_retry that has returned made at
\* least one call of add_episode, and a returned False follows a call that
\* raised.
C13_AtLeastOneAttempt ==
    rpc = "returned" =>
        /\ Cardinality(InvCalls) >= 1
        /\ ret = "False" => \E k \in InvCalls : InvLog[k].outcome # "ok"

\* The state of the retry state machine the wrapper is in: the three
\* terminal states are told apart by the return statement taken.
SmState ==
    CASE rpc = "attempting" -> "Attempting"
      [] rpc = "backoff" -> "Backoff"
      [] rpc = "returned" /\ ret_line = 98 -> "Succeeded"
      [] rpc = "returned" /\ ret_line = 116 -> "FailedRetryableExhausted"
      [] rpc = "returned" /\ ret_line = 120 -> "FailedFatal"
      [] OTHER -> "Outside"

SmTerminal == {"Succeeded", "FailedRetryableExhausted", "FailedFatal"}

\* The outcome of the call the step just made.
NewCallOutcome(o) == NewEvent(IsCall) /\ log'[Len(log')].outcome = o

\* C14: with max_retries = N >= 1 an invocation is always in one of the five
\* states, with the attempt index in 0..N-1; it starts in Attempting with
\* index 0; Attempting is left only by the outcome of a call: to Succeeded on
\* success, to FailedFatal on a non-rate-limit error, to Backoff on a
\* rate-limit error at an index below N-1, to FailedRetryableExhausted on a
\* rate-limit error at index N-1; Backoff is left only by the wait, to
\* Attempting with the index raised by one; a terminal state is left by no
\* call and no wait.
C14_FiveStateMachine ==
    /\ []((max_retries >= 1 /\ rpc \notin {"idle", "invoked"}) =>
             /\ SmState # "Outside"
             /\ attempt \in 0..(max_retries - 1))
    /\ [][(max_retries >= 1 /\ rpc # "idle") =>
             /\ rpc = "invoked" =>
                   rpc' = "invoked" \/ (SmState' = "Attempting" /\ attempt' = 0)
             /\ SmState = "Attempting" =>
                   \/ SmState' = "Attempting" /\ attempt' = attempt /\ log' = log
                   \/ /\ SmState' = "Succeeded"
                      /\ NewCallOutcome("ok")
                   \/ /\ SmState' = "FailedFatal"
                      /\ NewCallOutcome("other")
                   \/ /\ SmState' = "Backoff"
                      /\ NewCallOutcome("rate_limit")
                      /\ attempt < max_retries - 1
                      /\ attempt' = attempt
                   \/ /\ SmState' = "FailedRetryableExhausted"
                      /\ NewCallOutcome("rate_limit")
                      /\ attempt = max_retries - 1
             /\ SmState = "Backoff" =>
                   \/ SmState' = "Backoff" /\ attempt' = attempt /\ log' = log
                   \/ /\ SmState' = "Attempting"
                      /\ NewEvent(IsWait)
                      /\ attempt' = attempt + 1
             /\ SmState \in SmTerminal =>
                   /\ SmState' = SmState \/ rpc' = "idle"
                   /\ ~NewEvent(IsCall)
                   /\ ~NewEvent(IsWait)]_vars

\* Retries exhausted at the last of four attempts.
C14_Witness ==
    /\ SmState = "FailedRetryableExhausted"
    /\ max_retries = 4
    /\ attempt = 3
    /\ Cardinality(InvWaits) = 3

IsPacing(e) == e.op = "pacing_sleep"

\* C15: in the batch loop a pacing wait of the fixed delay is the very next
\* thing after add_episode_with_retry returned True for an item that is not
\* the last of the list, and only then: every pacing wait in the log comes
\* right after such a return, the return for the last item and a return of
\* False are followed by no pacing wait, and the next item's first call
\* comes right after the pacing wait.
C15_PacingBetweenInsertions ==
    /\ \A k \in Positions(IsResult) :
          IF log[k].outcome = "True" /\ log[k].item # NumEpisodes - 1
          THEN IF k = Len(log)
               THEN pc = "pacing"
               ELSE /\ IsPacing(log[k + 1])
                    /\ log[k + 1].arg = PacingDelay
                    /\ k + 1 = Len(log) \/ (IsCall(log[k + 2])
                                            /\ log[k + 2].item = log[k].item + 1)
          ELSE /\ pc # "pacing"
               /\ k < Len(log) => ~IsPacing(log[k + 1])
    /\ \A k \in Positions(IsPacing) :
          /\ k > 1
          /\ IsResult(log[k - 1])
          /\ log[k - 1].outcome = "True"
          /\ log[k - 1].item < NumEpisodes - 1
    /\ Cardinality(Positions(IsPacing)) <= NumEpisodes - 1

\* All four items inserted: three pacing waits, none after the last item.
C15_Witness ==
    /\ pc = "done"
    /\ episodes_added = NumEpisodes
    /\ Cardinality(Positions(IsPacing)) = NumEpisodes - 1
    /\ Positions(IsSearch) # {}

\* The run is over: the script has exited or main has returned, or the
\* directly invoked wrapper has ended.
Terminated ==
    \/ pc \in {"exited", "done"}
    \/ pc = "direct" /\ RetryEnded

\* C16: an invocation of add_episode_with_retry never makes more than
\* max_retries calls and, once begun, ends; main never makes more than
\* len(episodes) * max_retries insertion calls nor more than 3 search calls;
\* and every run ends, main's with the connection closed.
C16_Termination ==
    /\ [](/\ rpc # "idle" =>
                Cardinality(InvCalls) <= (IF max_retries > 0 THEN max_retries ELSE 0)
          /\ pc # "direct" =>
                Cardinality(Positions(IsCall)) <= NumEpisodes * MainMaxRetries
          /\ Cardinality(Positions(IsSearch)) <= 3
          /\ pc = "done" => IsClose(log[Len(log)]))
    /\ (rpc = "invoked") ~> RetryEnded
    /\ (Positions(IsConnect) # {}) ~> (pc = "done")
    /\ <>Terminated

\* The longest run of main: every item inserted on its third call, then the
\* three searches.
C16_Witness ==
    /\ pc = "done"
    /\ Cardinality(Positions(IsCall)) = NumEpisodes * MainMaxRetries
    /\ Cardinality(Positions(IsSearch)) = 3

\* Number of log entries before position k that satisfy P.
CountBefore(P(_), k) == Cardinality({m \in Positions(P) : m < k})

\* C17: main hands the items to add_episode_with_retry in list order, each
\* at most once (the n-th completed invocation is for item n-1, every call is
\* for the item of the invocation in progress); episodes_added +
\* episodes_failed is the number of completed invocations, at most
\* len(episodes); episodes_failed is 0 or 1; a loop that ended with
\* episodes_failed = 0 attempted every item and added all of them.
C17_BatchLoopInvariant ==
    pc # "direct" =>
        /\ \A k \in Positions(IsResult) : log[k].item = CountBefore(IsResult, k)
        /\ \A k \in Positions(IsCall) :
              /\ log[k].item = CountBefore(IsResult, k)
              /\ log[k].item < NumEpisodes
        /\ pc = "await_retry" => i = Cardinality(Positions(IsResult))
        /\ episodes_added + episodes_failed = Cardinality(Positions(IsResult))
        /\ episodes_added = Cardinality({k \in Positions(IsResult) : log[k].outcome = "True"})
        /\ episodes_added + episodes_failed <= NumEpisodes
        /\ episodes_failed \in {0, 1}
        /\ (LoopEnded /\ episodes_failed = 0) =>
              /\ episodes_added = NumEpisodes
              /\ \A n \in 0..(NumEpisodes - 1) :
                    \E k \in Positions(IsCall) : log[k].item = n

\* The loop has just ended with every item added, one of them on a retry.
C17_Witness ==
    /\ pc = "after_loop"
    /\ episodes_failed = 0
    /\ episodes_added = NumEpisodes
    /\ \E k \in Positions(IsCall) : log[k].outcome = "rate_limit"

\* The basic search returned, and the center-node search returned too or was
\* skipped for an empty basic result.
NodeSearchDue ==
    /\ \E b \in Positions(IsBasicSearch) : log[b].outcome = "ok"
    /\ \/ \E c \in Positions(IsCenterSearch) : log[c].outcome = "ok"
       \/ Positions(IsCenterSearch) = {} /\ Len(results) = 0

\* C18: every search call comes after the batch loop has ended (after every
\* insertion call, wrapper return and pacing wait); the basic search comes
\* before the center-node search and both before the node search; the node
\* search is issued, or is the next step, exactly when NodeSearchDue holds;
\* and a basic search that returned an empty list is followed by no
\* center-node search while a non-empty one is followed by it.
C18_SearchOrder ==
    /\ \A s \in Positions(IsSearch) :
          \A m \in DOMAIN log :
             (IsCall(log[m]) \/ IsResult(log[m]) \/ IsPacing(log[m])
              \/ IsWait(log[m])) => m < s
    /\ pc \in {"basic_search", "center_search", "node_search"} =>
          LoopEnded /\ rpc = "idle"
    /\ \A c \in Positions(IsCenterSearch) :
          \E b \in Positions(IsBasicSearch) : b < c
    /\ \A n \in Positions(IsNodeSearch) :
          /\ \E b \in Positions(IsBasicSearch) : b < n
          /\ \A c \in Positions(IsCenterSearch) : c < n
    /\ (Positions(IsNodeSearch) # {} \/ pc = "node_search") <=> NodeSearchDue
    /\ \A b \in Positions(IsBasicSearch) :
          log[b].outcome = "ok" =>
             IF Len(results) = 0
             THEN Positions(IsCenterSearch) = {} /\ pc # "center_search"
             ELSE Positions(IsCenterSearch) # {} \/ pc = "center_search"

\* An empty basic result: no center-node search, the node search was issued.
C18_Witness ==
    /\ pc = "done"
    /\ \E b \in Positions(IsBasicSearch) : log[b].outcome = "ok"
    /\ Len(results) = 0
    /\ Positions(IsCenterSearch) = {}
    /\ Positions(IsNodeSearch) # {}
====
